---- MODULE Spec2Model ----
(***************************************************************************)
(* Target resolution and rollout gating of fleet's target package          *)
(* (src/pkg/controllers/git/git.go, "package target", lines 148-503).      *)
(*                                                                         *)
(* Pointers are modelled as addresses into `heap`; address Nil is the nil  *)
(* pointer.  Strings that the code parses are sequences of one-character   *)
(* strings; names that the code only compares are TLA+ strings or numbers. *)
(***************************************************************************)
EXTENDS Integers, Sequences, FiniteSets, TLC

VARIABLES
    clusters,           \* m.clusters cache: the listed []*fleet.Cluster
    clusterGroups,      \* m.clusterGroups cache: the listed []*fleet.ClusterGroup
    bundle,             \* the *fleet.Bundle handed to Targets
    bundleDeployments,  \* m.bundleDeploymentCache: addresses of the recorded objects
    heap,               \* address -> fleet.BundleDeployment object
    targets,            \* a []*Target: the list a call returned or is given
    err,                \* the error the last call returned ("nil" when none)
    groups,             \* the []*fleet.ClusterGroup ClusterGroupsForCluster returned
    count,              \* Limit's count argument
    val,                \* Limit's variadic budgets
    status,             \* a *fleet.PartitionStatus
    contentStore,       \* m.contentStore: the manifests stored so far
    ret,                \* the value the last call returned
    op                  \* the last operation: <<name, arguments...>>

vars == <<clusters, clusterGroups, bundle, bundleDeployments, heap, targets,
          err, groups, count, val, status, contentStore, ret, op>>

----------------------------------------------------------------------------
(* Bounds of the model *)

MaxCount == 10       \* population sizes handed to Limit: 0..MaxCount
MaxStrLen == 3       \* length of the enumerated budget strings
MaxIntVal == 2       \* absolute budgets: -1..MaxIntVal
MaxTargets == 2      \* length of the target lists handed to the rollout gate
MaxClusters == 2     \* clusters listed in the bundle's namespace
MaxGroups == 3       \* cluster groups listed in the cluster's namespace
MaxDeployments == 1  \* recorded bundle deployments of the bundle

Nil == 0             \* the nil pointer

----------------------------------------------------------------------------
(* Sequence helpers *)

SeqsUpTo(S, n) == UNION {[1..k -> S] : k \in 0..n}

Range(s) == {s[i] : i \in DOMAIN s}

Repeat(x, n) == [i \in 1..n |-> x]

----------------------------------------------------------------------------
(* intstr.IntOrString and the string parsing Limit relies on *)

Digits == {"0", "1", "2", "3", "4", "5", "6", "7", "8", "9"}

DigitVal(c) ==
    CASE c = "0" -> 0 [] c = "1" -> 1 [] c = "2" -> 2 [] c = "3" -> 3
      [] c = "4" -> 4 [] c = "5" -> 5 [] c = "6" -> 6 [] c = "7" -> 7
      [] c = "8" -> 8 [] c = "9" -> 9

\* The characters the enumerated budget strings are built from.
Alphabet == {"0", "5", "a", "%", "-", "."}

NilBudget == [Type |-> "nil", IntVal |-> 0, StrVal |-> <<>>]
FromInt(n) == [Type |-> "Int", IntVal |-> n, StrVal |-> <<>>]
FromString(s) == [Type |-> "String", IntVal |-> 0, StrVal |-> s]

defLimit == FromString(<<"1", "0", "%">>)
defAutoPartitionSize == FromString(<<"2", "5", "%">>)
defMaxUnavailablePartitions == FromInt(0)

AllDigits(s) == \A i \in DOMAIN s : s[i] \in Digits

RECURSIVE DecimalValue(_)
DecimalValue(s) ==
    IF s = <<>> THEN 0
    ELSE 10 * DecimalValue(SubSeq(s, 1, Len(s) - 1)) + DigitVal(s[Len(s)])

\* strconv.Atoi: an optional sign, then one or more decimal digits.
Atoi(s) ==
    LET signed == s # <<>> /\ s[1] \in {"+", "-"}
        body == IF signed THEN Tail(s) ELSE s
    IN IF body = <<>> \/ ~AllDigits(body)
       THEN [val |-> 0, ok |-> FALSE]
       ELSE [val |-> IF signed /\ s[1] = "-" THEN 0 - DecimalValue(body)
                     ELSE DecimalValue(body),
             ok |-> TRUE]

\* (*IntOrString).IntValue: Atoi of the text for a string (0 when it does
\* not parse), the integer otherwise.
IntValue(b) == IF b.Type = "String" THEN Atoi(b.StrVal).val ELSE b.IntVal

HasSuffix(s, c) == s # <<>> /\ s[Len(s)] = c

TrimSuffix(s, c) == IF HasSuffix(s, c) THEN SubSeq(s, 1, Len(s) - 1) ELSE s

RECURSIVE Pow10(_)
Pow10(n) == IF n = 0 THEN 1 ELSE 10 * Pow10(n - 1)

\* strconv.ParseFloat(s, 64) on texts built from digits, a sign and a point:
\* an optional sign, digits with at most one point, at least one digit.  The
\* value is the exact fraction num/den.  (Exponents, hexadecimal floats, inf
\* and nan need characters outside the alphabet and never occur here.)
ParseFloat(s) ==
    LET signed == s # <<>> /\ s[1] \in {"+", "-"}
        body == IF signed THEN Tail(s) ELSE s
        points == {i \in DOMAIN body : body[i] = "."}
        p == IF points = {} THEN Len(body) + 1 ELSE CHOOSE i \in points : TRUE
        whole == SubSeq(body, 1, p - 1)
        frac == SubSeq(body, p + 1, Len(body))
        good == /\ Cardinality(points) <= 1
                /\ AllDigits(whole) /\ AllDigits(frac)
                /\ Len(whole) + Len(frac) > 0
        mag == DecimalValue(whole \o frac)
    IN IF ~good THEN [ok |-> FALSE, num |-> 0, den |-> 1]
       ELSE [ok |-> TRUE,
             num |-> IF signed /\ s[1] = "-" THEN 0 - mag ELSE mag,
             den |-> Pow10(Len(frac))]

\* Go's integer division truncates toward zero.
GoDiv(a, b) == IF a >= 0 THEN a \div b ELSE 0 - ((0 - a) \div b)

\* The first non-nil budget of the list, the default when there is none.
FirstBudget(v) ==
    LET set == {i \in DOMAIN v : v[i] # NilBudget}
    IN IF set = {} THEN defLimit
       ELSE v[CHOOSE i \in set : \A j \in set : i <= j]

\* Rounds to the nearest integer instead of truncating.
PercentOfRounded(n, percent) == GoDiv(GoDiv(n * percent.num, percent.den) + 50, 100)

\* int(float64(count)*percent) / 100 for percent = num/den > 0, computed on
\* the exact fraction.  For the counts and numerals of this model the float
\* product is exact whenever count*num/den is a multiple of 100 (percent is
\* then a dyadic fraction) and is otherwise at least 1/den away from one, far
\* more than the rounding error, so both truncate to the same integer.
PercentOf(n, percent) == GoDiv(GoDiv(n * percent.num, percent.den), 100)

\* Takes no string for an absolute count: every string must be a percentage.
LimitOfBudgetPercentOnly(n, maxUnavailable) ==
    IF maxUnavailable.Type = "Int"
    THEN [val |-> IntValue(maxUnavailable), err |-> "nil"]
    ELSE IF ~HasSuffix(maxUnavailable.StrVal, "%")
    THEN [val |-> 0, err |-> "invalid maxUnavailable"]
    ELSE LET percent == ParseFloat(TrimSuffix(maxUnavailable.StrVal, "%"))
         IN IF ~percent.ok
            THEN [val |-> 0, err |-> "failed to parse"]
            ELSE IF percent.num <= 0
            THEN [val |-> 1, err |-> "nil"]
            ELSE IF PercentOf(n, percent) <= 0
            THEN [val |-> 1, err |-> "nil"]
            ELSE [val |-> PercentOf(n, percent), err |-> "nil"]

LimitOfBudget(n, maxUnavailable) ==
    IF maxUnavailable.Type = "Int"
    THEN [val |-> IntValue(maxUnavailable), err |-> "nil"]
    ELSE IF IntValue(maxUnavailable) > 0
    THEN [val |-> IntValue(maxUnavailable), err |-> "nil"]
    ELSE IF ~HasSuffix(maxUnavailable.StrVal, "%")
    THEN [val |-> 0, err |-> "invalid maxUnavailable"]
    ELSE LET percent == ParseFloat(TrimSuffix(maxUnavailable.StrVal, "%"))
         IN IF ~percent.ok
            THEN [val |-> 0, err |-> "failed to parse"]
            ELSE IF percent.num <= 0
            THEN [val |-> 1, err |-> "nil"]
            ELSE IF PercentOf(n, percent) <= 0
            THEN [val |-> 1, err |-> "nil"]
            ELSE [val |-> PercentOf(n, percent), err |-> "nil"]

\* Has no special case for an empty population.
LimitWithoutZeroCase(n, v) == LimitOfBudget(n, FirstBudget(v))

Limit(n, v) ==
    IF n = 0 THEN [val |-> 1, err |-> "nil"]
    ELSE LimitOfBudget(n, FirstBudget(v))

----------------------------------------------------------------------------
(* Labels and label selectors (k8s.io/apimachinery) *)

\* A label map is a set of <<key, value>> pairs with distinct keys.
NoLabels == {}
Prod == {<<"env", "prod">>}
Dev == {<<"env", "dev">>}
LabelSets == {NoLabels, Prod, Dev}

HasKey(labels, k) == \E p \in labels : p[1] = k

\* *metav1.LabelSelector: nil, or MatchLabels plus MatchExpressions.
NoSelector == [IsNil |-> TRUE, MatchLabels |-> {}, MatchExpressions |-> <<>>]
SelectEverything == [IsNil |-> FALSE, MatchLabels |-> {}, MatchExpressions |-> <<>>]
SelectProd == [IsNil |-> FALSE, MatchLabels |-> Prod, MatchExpressions |-> <<>>]
SelectBadOperator ==
    [IsNil |-> FALSE, MatchLabels |-> Prod,
     MatchExpressions |-> <<[key |-> "env", operator |-> "Bogus", values |-> {}]>>]
SelectInNothing ==
    [IsNil |-> FALSE, MatchLabels |-> {},
     MatchExpressions |-> <<[key |-> "env", operator |-> "In", values |-> {}]>>]
SelectExistsEnv ==
    [IsNil |-> FALSE, MatchLabels |-> {},
     MatchExpressions |-> <<[key |-> "env", operator |-> "Exists", values |-> {}]>>]

\* A requirement LabelSelectorAsSelector accepts: In and NotIn need values,
\* Exists and DoesNotExist take none, any other operator is an error.
ValidRequirement(r) ==
    \/ r.operator \in {"In", "NotIn"} /\ r.values # {}
    \/ r.operator \in {"Exists", "DoesNotExist"} /\ r.values = {}

RequirementMatches(r, labels) ==
    CASE r.operator = "In" -> \E p \in labels : p[1] = r.key /\ p[2] \in r.values
      [] r.operator = "NotIn" -> ~\E p \in labels : p[1] = r.key /\ p[2] \in r.values
      [] r.operator = "Exists" -> HasKey(labels, r.key)
      [] r.operator = "DoesNotExist" -> ~HasKey(labels, r.key)
      [] OTHER -> FALSE

\* metav1.LabelSelectorAsSelector: err is TRUE for a selector it rejects.
LabelSelectorAsSelector(sel) ==
    [err |-> \E i \in DOMAIN sel.MatchExpressions :
                ~ValidRequirement(sel.MatchExpressions[i]),
     sel |-> sel]

\* labels.Selector.Matches: the empty selector matches everything.
Matches(sel, labels) ==
    /\ sel.MatchLabels \subseteq labels
    /\ \A i \in DOMAIN sel.MatchExpressions :
           RequirementMatches(sel.MatchExpressions[i], labels)

----------------------------------------------------------------------------
(* Cluster groups *)

\* The loop body of ClusterGroupsForCluster: whether group cg is appended.
GroupSelected(cg, cluster) ==
    IF cg.Spec.Selector.IsNil THEN FALSE
    ELSE IF LabelSelectorAsSelector(cg.Spec.Selector).err THEN FALSE
    ELSE Matches(LabelSelectorAsSelector(cg.Spec.Selector).sel, cluster.Labels)

\* Stops at the first group whose selector is invalid.
RECURSIVE SelectGroupsUntilInvalid(_, _)
SelectGroupsUntilInvalid(cgs, cluster) ==
    IF cgs = <<>> THEN <<>>
    ELSE IF ~Head(cgs).Spec.Selector.IsNil
            /\ LabelSelectorAsSelector(Head(cgs).Spec.Selector).err
         THEN <<>>
    ELSE IF GroupSelected(Head(cgs), cluster)
         THEN <<Head(cgs)>> \o SelectGroupsUntilInvalid(Tail(cgs), cluster)
         ELSE SelectGroupsUntilInvalid(Tail(cgs), cluster)

RECURSIVE SelectGroups(_, _)
SelectGroups(cgs, cluster) ==
    IF cgs = <<>> THEN <<>>
    ELSE IF GroupSelected(Head(cgs), cluster)
         THEN <<Head(cgs)>> \o SelectGroups(Tail(cgs), cluster)
         ELSE SelectGroups(Tail(cgs), cluster)

\* ClusterGroupsForCluster: listFails is the outcome of m.clusterGroups.List.
ClusterGroupsForCluster(cluster, listFails) ==
    IF listFails THEN [result |-> <<>>, err |-> "clusterGroups.List"]
    ELSE [result |-> SelectGroups(clusterGroups, cluster), err |-> "nil"]

\* ClusterGroupsToLabelMap: group name -> group labels (a later group of the
\* same name overwrites an earlier one).
ClusterGroupsToLabelMap(cgs) ==
    [n \in {cgs[i].Name : i \in DOMAIN cgs} |->
        cgs[CHOOSE i \in DOMAIN cgs :
                /\ cgs[i].Name = n
                /\ \A j \in DOMAIN cgs : cgs[j].Name = n => j <= i].Labels]

----------------------------------------------------------------------------
(* Bundles and their matching (pkg/bundle), options and identity (pkg/options) *)

\* Match: the first target definition, in declaration order, whose rule is
\* satisfied: its cluster group is one of the cluster's groups, or its
\* cluster selector matches the cluster's labels.
TargetMatches(t, groupMap, clusterLabels) ==
    \/ t.ClusterGroup # "" /\ t.ClusterGroup \in DOMAIN groupMap
    \/ ~t.ClusterSelector.IsNil /\ Matches(t.ClusterSelector, clusterLabels)

Match(b, groupMap, clusterLabels) ==
    LET hits == {i \in DOMAIN b.Spec.Targets :
                    TargetMatches(b.Spec.Targets[i], groupMap, clusterLabels)}
    IN IF hits = {} THEN [found |-> FALSE, Target |-> Nil]
       ELSE [found |-> TRUE, Target |-> CHOOSE i \in hits : \A j \in hits : i <= j]

\* options.Calculate: the target definition's override wins over the
\* bundle-wide default (0 stands for "no override").
Calculate(spec, t) == IF t.Options # 0 THEN t.Options ELSE spec.Options

\* options.DeploymentID: determined by the manifest and the options.
DeploymentID(manifest, opts) == manifest + opts

\* DeploymentLabels: the label pair that ties a deployment to its bundle.
DeploymentLabels(app) ==
    {<<"fleet.cattle.io/bundle-name", app.Name>>,
     <<"fleet.cattle.io/bundle-namespace", app.Namespace>>}

----------------------------------------------------------------------------
(* Manager.Targets *)

\* A collaborator failure is a pair <<call, index of the cluster it is made
\* for>> (index 0 for the calls made once per pass); NoFailure is none.
NoFailure == <<"none", 0>>
PerPassCalls == {"bundle.New", "clusters.List", "bundleDeployments.List"}
PerClusterCalls == {"clusterGroups.List", "Manifest", "Calculate", "DeploymentID", "Store"}

NewTarget(b, cluster, cgs, m) ==
    [Deployment |-> Nil,
     ClusterGroups |-> cgs,
     Cluster |-> cluster,
     Target |-> b.Spec.Targets[m.Target],
     Bundle |-> b,
     Options |-> Calculate(b.Spec, b.Spec.Targets[m.Target]),
     DeploymentID |-> DeploymentID(b.Manifest,
                         Calculate(b.Spec, b.Spec.Targets[m.Target]))]

\* A cluster without a match is skipped.
Skips(m) == ~m.found

\* The loop over the listed clusters, from cluster i on: acc is the result so
\* far, store the content store so far.
RECURSIVE ResolveFrom(_, _, _, _)
ResolveFrom(i, acc, store, fail) ==
    IF i > Len(clusters) THEN [result |-> acc, err |-> "nil", store |-> store]
    ELSE LET cluster == clusters[i]
             cgs == ClusterGroupsForCluster(cluster, fail = <<"clusterGroups.List", i>>)
             m == Match(bundle, ClusterGroupsToLabelMap(cgs.result), cluster.Labels)
         IN IF cgs.err # "nil"
            THEN [result |-> <<>>, err |-> cgs.err, store |-> store]
            ELSE IF Skips(m)
            THEN ResolveFrom(i + 1, acc, store, fail)
            ELSE IF fail[2] = i /\ fail[1] \in {"Manifest", "Calculate", "DeploymentID", "Store"}
            THEN [result |-> <<>>, err |-> fail[1], store |-> store]
            ELSE ResolveFrom(i + 1, Append(acc, NewTarget(bundle, cluster, cgs.result, m)),
                             store \cup {bundle.Manifest}, fail)

\* sort.Slice by Cluster.Name (the names of the listed clusters are distinct,
\* so the order of the result does not depend on the sort's stability).
RECURSIVE Insert(_, _)
Insert(t, s) ==
    IF s = <<>> THEN <<t>>
    ELSE IF t.Cluster.Name < Head(s).Cluster.Name THEN <<t>> \o s
    ELSE <<Head(s)>> \o Insert(t, Tail(s))

RECURSIVE InsertAll(_, _)
InsertAll(s, sorted) ==
    IF s = <<>> THEN sorted ELSE InsertAll(Tail(s), Insert(Head(s), sorted))

\* Leaves the list in the order of the cluster listing.
InListingOrder(s) == s

SortByClusterName(s) == InsertAll(s, <<>>)

\* A fresh address of heap h.
NewAddress(h) ==
    IF DOMAIN h = {} THEN 1
    ELSE 1 + CHOOSE a \in DOMAIN h : \A b \in DOMAIN h : b <= a

Extend(f, k, v) == [x \in DOMAIN f \cup {k} |-> IF x = k THEN v ELSE f[x]]

\* What foldInDeployments records in byNamespace for the deployment at
\* address a: the address of a DeepCopy of it, allocated in heap h.
Attached(h, a) == [heap |-> Extend(h, NewAddress(h), h[a]), address |-> NewAddress(h)]

\* byNamespace[appDep.Namespace] = appDep.DeepCopy(), for each listed deployment.
RECURSIVE IndexByNamespace(_, _, _)
IndexByNamespace(listed, h, byNamespace) ==
    IF listed = <<>> THEN [heap |-> h, byNamespace |-> byNamespace]
    ELSE LET c == Attached(h, Head(listed))
         IN IndexByNamespace(Tail(listed), c.heap,
                Extend(byNamespace, h[Head(listed)].Namespace, c.address))

Lookup(byNamespace, ns) == IF ns \in DOMAIN byNamespace THEN byNamespace[ns] ELSE Nil

\* m.bundleDeploymentCache.List("", SelectorFromSet(DeploymentLabels(app))).
RECURSIVE ListDeployments(_, _)
ListDeployments(cache, app) ==
    IF cache = <<>> THEN <<>>
    ELSE IF DeploymentLabels(app) \subseteq heap[Head(cache)].Labels
         THEN <<Head(cache)>> \o ListDeployments(Tail(cache), app)
         ELSE ListDeployments(Tail(cache), app)

foldInDeployments(app, ts, fail) ==
    IF fail = <<"bundleDeployments.List", 0>>
    THEN [targets |-> ts, heap |-> heap, err |-> fail[1]]
    ELSE LET idx == IndexByNamespace(ListDeployments(bundleDeployments, app), heap, <<>>)
         IN [targets |-> [i \in DOMAIN ts |->
                            [ts[i] EXCEPT !.Deployment =
                                Lookup(idx.byNamespace, ts[i].Cluster.Status.Namespace)]],
             heap |-> idx.heap,
             err |-> "nil"]

\* What Targets returns beside the error when the fold has failed.
ResultOnFoldError(folded) == folded.targets

Targets(fleetBundle, fail) ==
    IF fail[1] \in {"bundle.New", "clusters.List"}
    THEN [result |-> <<>>, err |-> fail[1], heap |-> heap, store |-> contentStore]
    ELSE LET r == ResolveFrom(1, <<>>, contentStore, fail)
             folded == foldInDeployments(fleetBundle, SortByClusterName(r.result), fail)
         IN IF r.err # "nil"
            THEN [result |-> <<>>, err |-> r.err, heap |-> heap, store |-> r.store]
            ELSE IF folded.err # "nil"
            THEN [result |-> ResultOnFoldError(folded), err |-> folded.err,
                  heap |-> folded.heap, store |-> r.store]
            ELSE [result |-> folded.targets, err |-> "nil",
                  heap |-> folded.heap, store |-> r.store]

----------------------------------------------------------------------------
(* The rollout gate *)

EmptyRollout == [IsNil |-> FALSE, MaxUnavailable |-> NilBudget,
                 MaxUnavailablePartitions |-> NilBudget]
NilRollout == [IsNil |-> TRUE, MaxUnavailable |-> NilBudget,
               MaxUnavailablePartitions |-> NilBudget]

getRollout(ts) ==
    LET rollout == IF Len(ts) > 0 THEN ts[1].Bundle.Spec.RolloutStrategy ELSE NilRollout
    IN IF rollout.IsNil THEN EmptyRollout ELSE rollout

MaxUnavailable(ts) == Limit(Len(ts), <<getRollout(ts).MaxUnavailable>>)

MaxUnavailablePartitions(partitions, ts) ==
    Limit(Len(partitions),
          <<getRollout(ts).MaxUnavailablePartitions, defMaxUnavailablePartitions>>)

\* Does not look at the staged identity.
UpToDateIgnoringStaged(target) ==
    IF \/ target.Deployment = Nil
       \/ heap[target.Deployment].Spec.DeploymentID # target.DeploymentID
       \/ heap[target.Deployment].Status.AppliedDeploymentID # target.DeploymentID
    THEN FALSE
    ELSE TRUE

UpToDate(target) ==
    IF \/ target.Deployment = Nil
       \/ heap[target.Deployment].Spec.StagedDeploymentID # target.DeploymentID
       \/ heap[target.Deployment].Spec.DeploymentID # target.DeploymentID
       \/ heap[target.Deployment].Status.AppliedDeploymentID # target.DeploymentID
    THEN FALSE
    ELSE TRUE

\* Does not look at readiness.
IsUnavailableIgnoringReady(d) ==
    IF d = Nil THEN FALSE
    ELSE heap[d].Status.AppliedDeploymentID # heap[d].Spec.DeploymentID

\* IsUnavailable of the deployment at address d.
IsUnavailable(d) ==
    IF d = Nil THEN FALSE
    ELSE \/ heap[d].Status.AppliedDeploymentID # heap[d].Spec.DeploymentID
         \/ ~heap[d].Status.Ready

RECURSIVE Unavailable(_)
Unavailable(ts) ==
    IF ts = <<>> THEN 0
    ELSE IF Head(ts).Deployment = Nil THEN Unavailable(Tail(ts))
    ELSE IF IsUnavailable(Head(ts).Deployment) THEN 1 + Unavailable(Tail(ts))
    ELSE Unavailable(Tail(ts))

\* The loop of IsPartitionUnavailable, started from status.Unavailable = 0.
RECURSIVE PartitionUnavailable(_)
PartitionUnavailable(ts) ==
    IF ts = <<>> THEN 0
    ELSE IF ~UpToDate(Head(ts)) \/ IsUnavailable(Head(ts).Deployment)
         THEN PartitionUnavailable(Tail(ts)) + 1
         ELSE PartitionUnavailable(Tail(ts))

\* Counts on from the status's old value instead of from 0.
IsPartitionUnavailableNoReset(st, ts) ==
    LET after == [st EXCEPT !.Unavailable = st.Unavailable + PartitionUnavailable(ts)]
    IN [status |-> after, result |-> after.Unavailable > after.MaxUnavailable]

\* IsPartitionUnavailable: the status it leaves and the value it returns.
IsPartitionUnavailable(st, ts) ==
    LET after == [st EXCEPT !.Unavailable = PartitionUnavailable(ts)]
    IN [status |-> after, result |-> after.Unavailable > after.MaxUnavailable]

----------------------------------------------------------------------------
(* Values the inputs are drawn from *)

Namespaces == {"ns1", "ns2"}

\* Deployment identities: the bundle's manifest is 10, its options 1 or 2.
TheManifest == 10
FreshID == DeploymentID(TheManifest, 1)
StaleID == DeploymentID(TheManifest, 2)
IDs == {FreshID, StaleID}

TargetOnProd == [Name |-> "prod", ClusterSelector |-> SelectProd, ClusterGroup |-> "",
                 Options |-> 2]
TargetOnGroup == [Name |-> "group", ClusterSelector |-> NoSelector, ClusterGroup |-> "g1",
                  Options |-> 2]
TargetOnAll == [Name |-> "all", ClusterSelector |-> SelectEverything, ClusterGroup |-> "",
                Options |-> 0]

BundleOf(defs, rollout) ==
    [Name |-> "bundle", Namespace |-> "fleet", Manifest |-> TheManifest,
     Spec |-> [Targets |-> defs, Options |-> 1, RolloutStrategy |-> rollout,
               Paused |-> FALSE]]

Bundles == {BundleOf(<<TargetOnProd>>, NilRollout),
            BundleOf(<<TargetOnGroup, TargetOnAll>>, NilRollout)}

OtherBundle == [Name |-> "other", Namespace |-> "fleet"]

Deployment(ns, labels, staged, target, applied, ready) ==
    [Name |-> "bundle", Namespace |-> ns, Labels |-> labels,
     Spec |-> [StagedDeploymentID |-> staged, DeploymentID |-> target],
     Status |-> [AppliedDeploymentID |-> applied, Ready |-> ready]]

ClusterOf(n, labels, ns) ==
    [Name |-> n, Namespace |-> "fleet", Labels |-> labels, Status |-> [Namespace |-> ns]]

GroupNames == <<"g1", "g2", "g3", "g4", "g5">>

GroupOf(i, sel) ==
    [Name |-> GroupNames[i], Namespace |-> "fleet", Labels |-> NoLabels,
     Spec |-> [Selector |-> sel]]

Selectors == {NoSelector, SelectEverything, SelectProd, SelectBadOperator,
              SelectInNothing, SelectExistsEnv}

\* Budget texts: every text over Alphabet up to MaxStrLen, and the examples.
BudgetTexts ==
    SeqsUpTo(Alphabet, MaxStrLen)
        \cup {<<"a", "b", "c", "%">>, <<"1", "0", "%">>, <<"2", "0", "%">>,
              <<"5", "0", "%">>, <<"1", "0">>}

Budgets ==
    {NilBudget} \cup {FromInt(n) : n \in -1..MaxIntVal}
        \cup {FromString(s) : s \in BudgetTexts}

Rollouts ==
    {NilRollout} \cup
    {[IsNil |-> FALSE, MaxUnavailable |-> b, MaxUnavailablePartitions |-> b] : b \in Budgets}

\* A target as Targets builds it for the cluster named n, with its deployment
\* at address d.
TargetOf(n, b, d) ==
    [NewTarget(b, ClusterOf(n, NoLabels, "ns1"), <<>>, [found |-> TRUE, Target |-> 1])
        EXCEPT !.Deployment = d]

----------------------------------------------------------------------------
(* Initial states *)

NoStatus == [Unavailable |-> 0, MaxUnavailable |-> 0]
NoReturn == [int |-> 0, bool |-> FALSE]

\* Limit's inputs: a population size and a rollout strategy; the targets are
\* `count` pending targets of a bundle with that strategy.
InitLimit ==
    /\ clusters = <<>> /\ clusterGroups = <<>>
    /\ bundleDeployments = <<>> /\ heap = <<>>
    /\ err = "nil" /\ groups = <<>>
    /\ val = <<>> /\ status = NoStatus
    /\ contentStore = {} /\ ret = NoReturn /\ op = <<"Init", 0>>
    /\ count \in 0..MaxCount
    /\ \E r \in Rollouts : bundle = BundleOf(<<TargetOnAll>>, r)
    /\ targets = [i \in 1..count |-> TargetOf(i, bundle, Nil)]

\* What a target list of the gate holds per target: no deployment, or one
\* whose three identities and readiness are free.
DeploymentShapes ==
    {[has |-> FALSE, staged |-> FreshID, target |-> FreshID, applied |-> FreshID,
      ready |-> FALSE]}
        \cup [has : {TRUE}, staged : IDs, target : IDs, applied : IDs, ready : BOOLEAN]

StaleButAvailable ==
    [has |-> TRUE, staged |-> StaleID, target |-> StaleID, applied |-> StaleID,
     ready |-> TRUE]

GateLists ==
    SeqsUpTo(DeploymentShapes, MaxTargets)
        \cup {Repeat(StaleButAvailable, n) : n \in 0..MaxCount}

Twenty == FromString(<<"2", "0", "%">>)

\* The rollout gate's inputs: a list of folded targets of one bundle whose
\* maxUnavailable is "20%", and a partition status.
InitGate ==
    /\ clusters = <<>> /\ clusterGroups = <<>>
    /\ bundleDeployments = <<>>
    /\ err = "nil" /\ groups = <<>>
    /\ count = 0 /\ val = <<>>
    /\ contentStore = {} /\ ret = NoReturn /\ op = <<"Init", 0>>
    /\ bundle = BundleOf(<<TargetOnAll>>,
                    [IsNil |-> FALSE, MaxUnavailable |-> Twenty,
                     MaxUnavailablePartitions |-> NilBudget])
    /\ \E shapes \in GateLists :
        /\ heap = [i \in {j \in DOMAIN shapes : shapes[j].has} |->
                     Deployment("ns1", DeploymentLabels(bundle), shapes[i].staged,
                                shapes[i].target, shapes[i].applied, shapes[i].ready)]
        /\ targets = [i \in DOMAIN shapes |->
                        TargetOf(i, bundle, IF shapes[i].has THEN i ELSE Nil)]
    /\ status \in [Unavailable : {0, 9}, MaxUnavailable : 0..MaxTargets]

\* The clusters a namespace lists: in any order, their names distinct.
ClusterLists ==
    {s \in SeqsUpTo({ClusterOf(n, l, ns) : n \in 1..MaxClusters, l \in {NoLabels, Prod},
                                          ns \in Namespaces}, MaxClusters) :
        \A i, j \in DOMAIN s : i # j => s[i].Name # s[j].Name}

\* The recorded deployments: this bundle's in either namespace, another
\* bundle's in the first.
RecordedDeployments ==
    {Deployment(ns, DeploymentLabels(BundleOf(<<>>, NilRollout)),
                FreshID, FreshID, FreshID, TRUE) : ns \in Namespaces}
        \cup {Deployment("ns1", DeploymentLabels(OtherBundle),
                         StaleID, StaleID, StaleID, TRUE)}

\* A pass of Targets over a fleet of clusters.
InitTargets ==
    /\ clusters \in ClusterLists
    /\ clusterGroups \in {<<>>, <<GroupOf(1, SelectProd)>>,
                          <<GroupOf(1, SelectBadOperator), GroupOf(2, SelectEverything)>>}
    /\ bundle \in Bundles
    /\ \E ds \in SeqsUpTo(RecordedDeployments, MaxDeployments) :
        /\ heap = ds
        /\ bundleDeployments = [i \in DOMAIN ds |-> i]
    /\ targets = <<>> /\ err = "nil" /\ groups = <<>>
    /\ count = 0 /\ val = <<>> /\ status = NoStatus
    /\ contentStore = {} /\ ret = NoReturn /\ op = <<"Init", 0>>

\* One cluster and the cluster groups of its namespace, in every combination
\* of selectors.
InitGroups ==
    /\ clusters \in {<<ClusterOf(1, l, "ns1")>> : l \in LabelSets}
    /\ clusterGroups \in
          {[i \in DOMAIN sels |-> GroupOf(i, sels[i])] : sels \in SeqsUpTo(Selectors, MaxGroups)}
    /\ bundle \in Bundles
    /\ heap = <<Deployment("ns1", DeploymentLabels(bundle), FreshID, FreshID, FreshID, TRUE)>>
    /\ bundleDeployments = <<1>>
    /\ targets = <<>> /\ err = "nil" /\ groups = <<>>
    /\ count = 0 /\ val = <<>> /\ status = NoStatus
    /\ contentStore = {} /\ ret = NoReturn /\ op = <<"Init", 0>>

----------------------------------------------------------------------------
(* Operations *)

\* The budget lists Limit is called with: none, the strategy's budget alone,
\* behind a nil, or in front of the partitions default.
BudgetLists(b) ==
    {<<>>, <<b>>, <<NilBudget, b>>, <<NilBudget, NilBudget>>,
     <<b, defMaxUnavailablePartitions>>}

\* Limit, MaxUnavailable and MaxUnavailablePartitions are pure: a behaviour
\* makes one call of them on its inputs.
CallLimit ==
    /\ op[1] = "Init"
    /\ \E v \in BudgetLists(bundle.Spec.RolloutStrategy.MaxUnavailable) :
        /\ val' = v
        /\ ret' = [int |-> Limit(count, v).val, bool |-> FALSE]
        /\ err' = Limit(count, v).err
    /\ op' = <<"Limit", 0>>
    /\ UNCHANGED <<clusters, clusterGroups, bundle, bundleDeployments, heap, targets,
                   groups, count, status, contentStore>>

CallMaxUnavailable ==
    /\ op[1] = "Init"
    /\ ret' = [int |-> MaxUnavailable(targets).val, bool |-> FALSE]
    /\ err' = MaxUnavailable(targets).err
    /\ op' = <<"MaxUnavailable", 0>>
    /\ UNCHANGED <<clusters, clusterGroups, bundle, bundleDeployments, heap, targets,
                   groups, count, val, status, contentStore>>

\* The partitions are given by their number np: none, or one per target.
CallMaxUnavailablePartitions ==
    /\ op[1] = "Init"
    /\ \E np \in {0, Len(targets)} :
        /\ ret' = [int |-> MaxUnavailablePartitions(Repeat("partition", np), targets).val,
                   bool |-> FALSE]
        /\ err' = MaxUnavailablePartitions(Repeat("partition", np), targets).err
        /\ op' = <<"MaxUnavailablePartitions", np>>
    /\ UNCHANGED <<clusters, clusterGroups, bundle, bundleDeployments, heap, targets,
                   groups, count, val, status, contentStore>>

CallUpToDate ==
    /\ \E i \in DOMAIN targets :
        /\ ret' = [int |-> 0, bool |-> UpToDate(targets[i])]
        /\ op' = <<"UpToDate", i>>
    /\ err' = "nil"
    /\ UNCHANGED <<clusters, clusterGroups, bundle, bundleDeployments, heap, targets,
                   groups, count, val, status, contentStore>>

CallUnavailable ==
    /\ ret' = [int |-> Unavailable(targets), bool |-> FALSE]
    /\ op' = <<"Unavailable", 0>>
    /\ err' = "nil"
    /\ UNCHANGED <<clusters, clusterGroups, bundle, bundleDeployments, heap, targets,
                   groups, count, val, status, contentStore>>

CallIsPartitionUnavailable ==
    /\ status' = IsPartitionUnavailable(status, targets).status
    /\ ret' = [int |-> 0, bool |-> IsPartitionUnavailable(status, targets).result]
    /\ op' = <<"IsPartitionUnavailable", 0>>
    /\ err' = "nil"
    /\ UNCHANGED <<clusters, clusterGroups, bundle, bundleDeployments, heap, targets,
                   groups, count, val, contentStore>>

\* The collaborator failures a pass over the listed clusters can meet.
Failures ==
    {NoFailure} \cup (PerPassCalls \X {0}) \cup (PerClusterCalls \X DOMAIN clusters)

\* One pass of Targets, before anything was done with an earlier result.
\* op[2] tells whether a collaborator was made to fail.
CallTargets ==
    /\ op[1] = "Init"
    /\ \E fail \in Failures :
        /\ targets' = Targets(bundle, fail).result
        /\ err' = Targets(bundle, fail).err
        /\ heap' = Targets(bundle, fail).heap
        /\ contentStore' = Targets(bundle, fail).store
        /\ op' = <<"Targets", IF fail = NoFailure THEN 0 ELSE 1>>
    /\ UNCHANGED <<clusters, clusterGroups, bundle, bundleDeployments, groups, count,
                   val, status, ret>>

CallClusterGroupsForCluster ==
    /\ op[1] = "Init"
    /\ \E i \in DOMAIN clusters, listFails \in BOOLEAN :
        /\ groups' = ClusterGroupsForCluster(clusters[i], listFails).result
        /\ err' = ClusterGroupsForCluster(clusters[i], listFails).err
        /\ op' = <<"ClusterGroupsForCluster", i>>
    /\ UNCHANGED <<clusters, clusterGroups, bundle, bundleDeployments, heap, targets,
                   count, val, status, contentStore, ret>>

\* A reader of the returned list changes the deployment attached to target i
\* (here: its readiness), once.
ChangeDeployment ==
    /\ op[1] = "Targets"
    /\ \E i \in DOMAIN targets :
        /\ targets[i].Deployment # Nil
        /\ heap' = [heap EXCEPT ![targets[i].Deployment].Status.Ready = ~@]
        /\ op' = <<"ChangeDeployment", i>>
    /\ UNCHANGED <<clusters, clusterGroups, bundle, bundleDeployments, targets, err,
                   groups, count, val, status, contentStore, ret>>

NextLimit == CallLimit \/ CallMaxUnavailable \/ CallMaxUnavailablePartitions

NextGate == CallUpToDate \/ CallUnavailable \/ CallIsPartitionUnavailable \/ CallMaxUnavailable

NextTargets == CallTargets \/ CallClusterGroupsForCluster \/ ChangeDeployment

Init == InitLimit \/ InitGate \/ InitTargets \/ InitGroups

Next == NextLimit \/ NextGate \/ NextTargets

SpecLimit == InitLimit /\ [][NextLimit]_vars

SpecGate == InitGate /\ [][NextGate]_vars

SpecTargets == InitTargets /\ [][NextTargets]_vars

SpecGroups == InitGroups /\ [][NextTargets]_vars

Spec == Init /\ [][Next]_vars

----------------------------------------------------------------------------
(* Properties *)

ThisBundles(a) == DeploymentLabels(bundle) \subseteq heap[a].Labels

\* The listed cluster c matches a target definition of the bundle: the first
\* bundle targets the clusters labelled env=prod, the second every cluster.
ExpectMatch(c) ==
    \/ bundle.Spec.Targets = <<TargetOnGroup, TargetOnAll>>
    \/ bundle.Spec.Targets = <<TargetOnProd>> /\ <<"env", "prod">> \in c.Labels

\* C1: a successful Targets returns a list sorted ascending by cluster name
\* that holds exactly one Target for each listed cluster the bundle matches
\* and none for any other cluster.
C1_SortedOnePerMatch ==
    (op[1] = "Targets" /\ err = "nil") =>
        /\ \A i \in 1..(Len(targets) - 1) :
              targets[i].Cluster.Name < targets[i + 1].Cluster.Name
        /\ \A k \in DOMAIN clusters :
              Cardinality({i \in DOMAIN targets : targets[i].Cluster = clusters[k]})
                  = IF ExpectMatch(clusters[k]) THEN 1 ELSE 0
        /\ \A i \in DOMAIN targets : targets[i].Cluster \in Range(clusters)

C1_Witness ==
    /\ op[1] = "Targets" /\ err = "nil"
    /\ Len(clusters) = 2 /\ clusters[1].Name > clusters[2].Name
    /\ ~ExpectMatch(clusters[1]) /\ ExpectMatch(clusters[2])
    /\ Len(targets) = 1

C1_WitnessReordered ==
    /\ op[1] = "Targets" /\ err = "nil"
    /\ Len(clusters) = 2 /\ clusters[1].Name > clusters[2].Name
    /\ Len(targets) = 2

\* C2: whenever Targets returns an error, it returns no Target list.
C2_NoListOnError ==
    (op[1] = "Targets" /\ err # "nil") => targets = <<>>

\* The text is a positive decimal integer: digits, not all of them 0, after
\* an optional plus sign.
PositiveIntegerText(s) ==
    LET body == IF s # <<>> /\ s[1] = "+" THEN Tail(s) ELSE s
    IN body # <<>> /\ AllDigits(body) /\ \E i \in DOMAIN body : body[i] # "0"

\* The text is a decimal numeral: digits with at most one point, after an
\* optional sign.
NumeralText(s) ==
    LET body == IF s # <<>> /\ s[1] \in {"+", "-"} THEN Tail(s) ELSE s
    IN /\ \A i \in DOMAIN body : body[i] \in Digits \cup {"."}
       /\ Cardinality({i \in DOMAIN body : body[i] = "."}) <= 1
       /\ \E i \in DOMAIN body : body[i] \in Digits

\* Limit was called with the one string budget `text` on a population > 0.
LimitOfText(text) ==
    op[1] = "Limit" /\ count > 0 /\ val = <<FromString(text)>>

LimitCalledOnText ==
    op[1] = "Limit" /\ count > 0 /\ Len(val) = 1 /\ val[1].Type = "String"

\* C3, as claimed: for count > 0, every string budget that does not end in
\* '%' fails, and so does one ending in '%' whose numeral is no number.
C3_StringWithoutPercentFails ==
    LimitCalledOnText =>
        /\ ~HasSuffix(val[1].StrVal, "%") => err # "nil"
        /\ (HasSuffix(val[1].StrVal, "%")
              /\ ~NumeralText(TrimSuffix(val[1].StrVal, "%"))) => err # "nil"

\* C3, amended: for count > 0, a string budget that does not end in '%'
\* fails with 0 unless it is the text of a positive integer, which is
\* returned as the limit (Limit(10, "10") = 10); a string ending in '%'
\* whose numeral is no number fails.
C3_StringWithoutPercentFailsUnlessPositiveInteger ==
    LimitCalledOnText =>
        /\ (~HasSuffix(val[1].StrVal, "%") /\ ~PositiveIntegerText(val[1].StrVal))
              => (err # "nil" /\ ret.int = 0)
        /\ PositiveIntegerText(val[1].StrVal)
              => (err = "nil" /\ ret.int = DecimalValue(
                     IF val[1].StrVal[1] = "+" THEN Tail(val[1].StrVal) ELSE val[1].StrVal))
        /\ (HasSuffix(val[1].StrVal, "%")
              /\ ~NumeralText(TrimSuffix(val[1].StrVal, "%")))
              => (err # "nil" /\ ret.int = 0)
        /\ (count = 10 /\ val[1].StrVal = <<"1", "0">>) => (err = "nil" /\ ret.int = 10)
        /\ (count = 10 /\ val[1].StrVal = <<"a", "b", "c", "%">>) => err = "failed to parse"

C3_Witness ==
    /\ LimitOfText(<<"1", "0">>) /\ count = 10
    /\ err = "nil" /\ ret.int = 10

\* C4: Limit(0, budgets...) is 1 with no error for every budget list, so
\* MaxUnavailable of no targets and MaxUnavailablePartitions of no partitions
\* are 1.
C4_ZeroCountIsOne ==
    /\ (op[1] = "Limit" /\ count = 0) => (ret.int = 1 /\ err = "nil")
    /\ (op[1] = "MaxUnavailable" /\ targets = <<>>) => (ret.int = 1 /\ err = "nil")
    /\ op = <<"MaxUnavailablePartitions", 0>> => (ret.int = 1 /\ err = "nil")

C4_Witness ==
    /\ op[1] = "Limit" /\ count = 0
    /\ val = <<FromString(<<"a">>)>>
    /\ ret.int = 1 /\ err = "nil"

C4_WitnessPartitions ==
    /\ op = <<"MaxUnavailablePartitions", 0>>
    /\ targets # <<>>
    /\ getRollout(targets).MaxUnavailablePartitions = NilBudget
    /\ ret.int = 1 /\ err = "nil"

Max(a, b) == IF a >= b THEN a ELSE b

\* C5: for count > 0 and a budget "p%", Limit is max(1, floor(count*p/100))
\* when p > 0 and 1 when p <= 0; without a non-nil budget it is
\* max(1, count*10 div 100); Limit(10, "50%") = 5 and Limit(3, "50%") = 1.
C5_PercentageIsFlooredAtLeastOne ==
    (op[1] = "Limit" /\ count > 0) =>
        /\ (Len(val) = 1 /\ val[1].Type = "String" /\ HasSuffix(val[1].StrVal, "%")
              /\ NumeralText(TrimSuffix(val[1].StrVal, "%"))) =>
                LET p == ParseFloat(TrimSuffix(val[1].StrVal, "%"))
                IN /\ err = "nil"
                   /\ p.num > 0 => ret.int = Max(1, (count * p.num) \div (p.den * 100))
                   /\ p.num <= 0 => ret.int = 1
        /\ (\A i \in DOMAIN val : val[i] = NilBudget) =>
                (err = "nil" /\ ret.int = Max(1, (count * 10) \div 100))
        /\ (count = 10 /\ val = <<FromString(<<"5", "0", "%">>)>>) => ret.int = 5
        /\ (count = 3 /\ val = <<FromString(<<"5", "0", "%">>)>>) => ret.int = 1

C5_Witness ==
    /\ LimitOfText(<<"5", "0", "%">>) /\ count = 10
    /\ ret.int = 5 /\ err = "nil"

\* The deployment attached to target t, read field by field.
Staged(t) == heap[t.Deployment].Spec.StagedDeploymentID
Wanted(t) == heap[t.Deployment].Spec.DeploymentID
Applied(t) == heap[t.Deployment].Status.AppliedDeploymentID
Ready(t) == heap[t.Deployment].Status.Ready

\* C6: UpToDate(target) is true if and only if the target has a deployment
\* whose staged, target and applied identities all equal the Target's
\* DeploymentID.
C6_UpToDateIffAllThreeEqual ==
    op[1] = "UpToDate" =>
        LET t == targets[op[2]]
        IN ret.bool <=> /\ t.Deployment # Nil
                        /\ Staged(t) = t.DeploymentID
                        /\ Wanted(t) = t.DeploymentID
                        /\ Applied(t) = t.DeploymentID

C6_Witness ==
    /\ op[1] = "UpToDate" /\ ret.bool
    /\ targets[op[2]].Deployment # Nil

C6_WitnessOneMismatch ==
    /\ op[1] = "UpToDate" /\ ~ret.bool
    /\ targets[op[2]].Deployment # Nil
    /\ Staged(targets[op[2]]) # targets[op[2]].DeploymentID
    /\ Wanted(targets[op[2]]) = targets[op[2]].DeploymentID
    /\ Applied(targets[op[2]]) = targets[op[2]].DeploymentID

\* C7: Unavailable(targets) is the number of targets that have a deployment
\* whose applied identity differs from its target identity or that is not
\* ready; stale but available targets are not counted, and MaxUnavailable of
\* 10 targets under "20%" is 2.
C7_UnavailableCountsDeployedUnavailable ==
    /\ op[1] = "Unavailable" =>
          ret.int = Cardinality({i \in DOMAIN targets :
                        /\ targets[i].Deployment # Nil
                        /\ (Applied(targets[i]) # Wanted(targets[i]) \/ ~Ready(targets[i]))})
    /\ (op[1] = "MaxUnavailable" /\ Len(targets) = 10) => (ret.int = 2 /\ err = "nil")

C7_Witness ==
    /\ op[1] = "Unavailable" /\ Len(targets) = 2
    /\ targets[1].Deployment = Nil /\ targets[2].Deployment # Nil
    /\ Applied(targets[2]) = Wanted(targets[2]) /\ ~Ready(targets[2])
    /\ ret.int = 1

C7_WitnessStaleButAvailable ==
    /\ op[1] = "Unavailable" /\ Len(targets) = 10
    /\ \A i \in DOMAIN targets :
          /\ targets[i].Deployment # Nil
          /\ Applied(targets[i]) = Wanted(targets[i]) /\ Ready(targets[i])
          /\ Applied(targets[i]) # targets[i].DeploymentID
    /\ ret.int = 0

\* Target t counts against its partition: it has no deployment, one of the
\* three identities is not the Target's, or the deployment is unavailable.
CountsAgainstPartition(t) ==
    \/ t.Deployment = Nil
    \/ Staged(t) # t.DeploymentID \/ Wanted(t) # t.DeploymentID
    \/ Applied(t) # t.DeploymentID
    \/ Applied(t) # Wanted(t) \/ ~Ready(t)

\* C8: IsPartitionUnavailable overwrites status.Unavailable with the number
\* of targets that are not up to date or unavailable, leaves
\* status.MaxUnavailable unchanged and returns whether the count exceeds it;
\* a second call on the same targets changes nothing.
C8_PartitionStatusRecomputed ==
    [][op'[1] = "IsPartitionUnavailable" =>
          /\ status'.Unavailable =
                Cardinality({i \in DOMAIN targets : CountsAgainstPartition(targets[i])})
          /\ status'.MaxUnavailable = status.MaxUnavailable
          /\ ret'.bool <=> (status'.Unavailable > status.MaxUnavailable)
          /\ op[1] = "IsPartitionUnavailable" => (status' = status /\ ret' = ret)]_vars

C8_Witness ==
    /\ op[1] = "IsPartitionUnavailable" /\ ret.bool
    /\ Len(targets) = 2 /\ status.MaxUnavailable = 1 /\ status.Unavailable = 2
    /\ targets[1].Deployment = Nil
    /\ targets[2].Deployment # Nil
    /\ Applied(targets[2]) = Wanted(targets[2]) /\ Ready(targets[2])

\* C9: after a successful Targets each Target's Deployment is a copy of a
\* listed deployment of this bundle in the cluster's status namespace, unset
\* exactly when there is none; the fold writes nothing back; and a later
\* change through one Target's Deployment shows neither in the recorded
\* deployments nor through any other Target.
C9_FoldAttachesPrivateCopies ==
    [][/\ (op'[1] = "Targets" /\ err' = "nil") =>
            /\ bundleDeployments' = bundleDeployments
            /\ \A a \in DOMAIN heap : heap'[a] = heap[a]
            /\ \A i \in DOMAIN targets' :
                  LET d == targets'[i].Deployment
                      here == {a \in Range(bundleDeployments) :
                                  /\ ThisBundles(a)
                                  /\ heap[a].Namespace = targets'[i].Cluster.Status.Namespace}
                  IN IF here = {} THEN d = Nil
                     ELSE /\ d # Nil /\ d \notin Range(bundleDeployments)
                          /\ \E a \in here : heap'[d] = heap[a]
       /\ op'[1] = "ChangeDeployment" =>
            /\ \A a \in Range(bundleDeployments) : heap'[a] = heap[a]
            /\ \A j \in DOMAIN targets :
                  (j # op'[2] /\ targets[j].Deployment # Nil) =>
                      heap'[targets[j].Deployment] = heap[targets[j].Deployment]]_vars

\* The selectors that are valid and match the labels, one by one.
ExpectSelected(cg, labels) ==
    \/ cg.Spec.Selector = SelectEverything
    \/ cg.Spec.Selector = SelectProd /\ labels = Prod
    \/ cg.Spec.Selector = SelectExistsEnv /\ labels \in {Prod, Dev}

ExpectGroups(cluster) ==
    LET Test(cg) == ExpectSelected(cg, cluster.Labels)
    IN SelectSeq(clusterGroups, Test)

\* C10: ClusterGroupsForCluster returns exactly the groups whose selector is
\* valid and matches the cluster's labels, in listing order; a group without
\* a selector or with an invalid one is left out without an error, and
\* Targets, when no collaborator fails, still resolves the cluster.
C10_InvalidSelectorIsSkipped ==
    /\ op[1] = "ClusterGroupsForCluster" =>
          \/ err = "clusterGroups.List" /\ groups = <<>>
          \/ err = "nil" /\ groups = ExpectGroups(clusters[op[2]])
    /\ op = <<"Targets", 0>> =>
          /\ err = "nil"
          /\ \A i \in DOMAIN targets :
                targets[i].ClusterGroups = ExpectGroups(targets[i].Cluster)
          /\ \A k \in DOMAIN clusters :
                ExpectMatch(clusters[k]) => \E i \in DOMAIN targets :
                                               targets[i].Cluster = clusters[k]

C10_Witness ==
    /\ op[1] = "ClusterGroupsForCluster" /\ err = "nil"
    /\ Len(clusterGroups) = 3
    /\ clusterGroups[2].Spec.Selector = SelectBadOperator
    /\ groups = <<clusterGroups[1], clusterGroups[3]>>

C10_WitnessTargets ==
    /\ op = <<"Targets", 0>> /\ err = "nil"
    /\ \E i \in DOMAIN clusterGroups : clusterGroups[i].Spec.Selector = SelectBadOperator
    /\ Len(targets) = 1 /\ Len(targets[1].ClusterGroups) = 2

====
